---- MODULE Spec2Model ----
(***************************************************************************)
(* A model of rs-tiled's map builder (Map::new), its GID queries           *)
(* (Map::get_tileset_by_gid, Map::get_tile_rectangle_by_id), the default   *)
(* external-tileset loader, the Orientation conversions and Frame::new.    *)
(*                                                                         *)
(* Strings that the code only compares or stores are TLA+ strings; strings *)
(* that the code converts digit by digit (numbers, colours) are sequences  *)
(* of one-character strings.                                               *)
(***************************************************************************)
EXTENDS Integers, Sequences, FiniteSets, TLC

(***************************************************************************)
(* Bounds of the model.                                                    *)
(***************************************************************************)
\* Width, in bits, of the model's machine integers.  The source uses u32 and
\* i32; TLC's integers are themselves 32 bits wide, so the same two's
\* complement arithmetic is modelled at this width.
Bits == 3
\* Most child elements of the root element in one document.
MaxChildren == 3
\* Most tilesets of a Map the queries are tried on.
MaxTilesets == 2

(***************************************************************************)
(* Machine integers.                                                       *)
(***************************************************************************)
RECURSIVE Pow2(_)
Pow2(n) == IF n = 0 THEN 1 ELSE 2 * Pow2(n - 1)

UMax == Pow2(Bits) - 1
IMax == Pow2(Bits - 1) - 1
IMin == 0 - Pow2(Bits - 1)
UInt == 0..UMax
SInt == IMin..IMax

\* `x as i32` of an unsigned x: the same bits read as two's complement.
AsSigned(x) == IF x > IMax THEN x - Pow2(Bits) ELSE x
\* `x as u32` of a signed x.
AsUnsigned(x) == IF x < 0 THEN x + Pow2(Bits) ELSE x

None == [tag |-> "None"]
Some(x) == [tag |-> "Some", val |-> x]
IsSome(x) == x.tag = "Some"

Ok(x) == [tag |-> "Ok", val |-> x]
Err(e) == [tag |-> "Err", err |-> e]
IsOk(r) == r.tag = "Ok"

(***************************************************************************)
(* str::parse::<u32>, as used by the attribute conversions                 *)
(* `|v:String| v.parse().ok()`: an optional leading "+", then at least one *)
(* decimal digit, accumulated with checked arithmetic.                     *)
(***************************************************************************)
Digits == <<"0", "1", "2", "3", "4", "5", "6", "7", "8", "9">>
IsDigit(c) == \E i \in 1..10 : Digits[i] = c
DigitVal(c) == (CHOOSE i \in 1..10 : Digits[i] = c) - 1

RECURSIVE ParseDigits(_, _)
\* acc is None after an invalid digit or an overflow.
ParseDigits(s, acc) ==
    IF s = <<>> \/ ~IsSome(acc) THEN acc
    ELSE IF ~IsDigit(Head(s)) THEN None
    ELSE LET n == acc.val * 10 + DigitVal(Head(s))
         IN ParseDigits(Tail(s), IF n > UMax THEN None ELSE Some(n))

parse_u32(s) ==
    LET body == IF s # <<>> /\ Head(s) = "+" THEN Tail(s) ELSE s
    IN IF body = <<>> THEN None ELSE ParseDigits(body, Some(0))

(***************************************************************************)
(* Orientation (map.rs) and its two conversions.                           *)
(***************************************************************************)
Orientation == {"Orthogonal", "Isometric", "Staggered", "Hexagonal"}

\* A mutant of OrientationFromStr: two match arms swapped by a slip.
OrientationFromStrSwapped(s) ==
    CASE s = "orthogonal" -> Ok("Orthogonal")
      [] s = "isometric" -> Ok("Staggered")
      [] s = "staggered" -> Ok("Isometric")
      [] s = "hexagonal" -> Ok("Hexagonal")
      [] OTHER -> Err("OrientationError")

\* impl FromStr for Orientation
OrientationFromStr(s) ==
    CASE s = "orthogonal" -> Ok("Orthogonal")
      [] s = "isometric" -> Ok("Isometric")
      [] s = "staggered" -> Ok("Staggered")
      [] s = "hexagonal" -> Ok("Hexagonal")
      [] OTHER -> Err("OrientationError")

\* impl fmt::Display for Orientation
OrientationDisplay(o) ==
    CASE o = "Orthogonal" -> "orthogonal"
      [] o = "Isometric" -> "isometric"
      [] o = "Staggered" -> "staggered"
      [] o = "Hexagonal" -> "hexagonal"

\* Result::ok
ResultOk(r) == IF IsOk(r) THEN Some(r.val) ELSE None

(***************************************************************************)
(* Colour::from_str (properties.rs): "#" and 6 or 8 hexadecimal digits.    *)
(***************************************************************************)
HexDigits == <<"0", "1", "2", "3", "4", "5", "6", "7", "8", "9",
               "a", "b", "c", "d", "e", "f">>
HexUpper == <<"0", "1", "2", "3", "4", "5", "6", "7", "8", "9",
              "A", "B", "C", "D", "E", "F">>
IsHex(c) == \E i \in 1..16 : HexDigits[i] = c \/ HexUpper[i] = c
HexVal(c) == (CHOOSE i \in 1..16 : HexDigits[i] = c \/ HexUpper[i] = c) - 1
HexByte(s, i) == 16 * HexVal(s[i]) + HexVal(s[i + 1])

ColourFromStr(s) ==
    IF s = <<>> \/ Head(s) # "#" THEN None
    ELSE LET h == Tail(s)
         IN IF ~(Len(h) \in {6, 8}) \/ (\E i \in 1..Len(h) : ~IsHex(h[i]))
            THEN None
            ELSE LET k == Len(h) - 6
                 IN Some([red |-> HexByte(h, k + 1),
                          green |-> HexByte(h, k + 3),
                          blue |-> HexByte(h, k + 5)])

(***************************************************************************)
(* get_attrs! (util.rs).  The attributes of one start tag are a function   *)
(* from attribute names to None (absent) or Some(value).                   *)
(***************************************************************************)
\* One attribute, through its conversion: None when the attribute is absent
\* or the conversion fails.
AttrU32(attrs, name) ==
    IF IsSome(attrs[name]) THEN parse_u32(attrs[name].val) ELSE None
AttrString(attrs, name) ==
    IF IsSome(attrs[name]) THEN Some(attrs[name].val) ELSE None
AttrOrientation(attrs, name) ==
    IF IsSome(attrs[name]) THEN ResultOk(OrientationFromStr(attrs[name].val))
    ELSE None
AttrColour(attrs, name) ==
    IF IsSome(attrs[name]) THEN ColourFromStr(attrs[name].val) ELSE None
AttrFlag(attrs, name) ==
    IF IsSome(attrs[name]) THEN Some(attrs[name].val = "1") ELSE None

\* `required`: every variable must have been set.
AllSome(req) == \A i \in 1..Len(req) : IsSome(req[i])

(***************************************************************************)
(* Frame::new (animation.rs)                                               *)
(***************************************************************************)
\* The `required:` list of Frame::new.
FrameRequired(attrs) ==
    << AttrU32(attrs, "tileid"),
       AttrU32(attrs, "duration") >>

FrameNew(attrs) ==
    LET req == FrameRequired(attrs)
    IN IF ~AllSome(req) THEN Err("MalformedAttributes")
       ELSE Ok([tile_id |-> req[1].val, duration |-> req[2].val])

(***************************************************************************)
(* default_file_loader (lib.rs).  map_path is None or Some(<<dir, file>>); *)
(* fsContent is what std::fs::read would find at the path: "missing", or   *)
(* the bytes of the file.  `read` tells whether the file system was read.  *)
(***************************************************************************)
with_file_name(path, name) == <<path[1], name>>

\* A mutant of default_file_loader: the missing map path is replaced by the
\* current directory instead of being reported.
default_file_loader_cwd(map_path, source, fsContent) ==
    LET tileset_path == IF IsSome(map_path)
                        THEN with_file_name(map_path.val, source)
                        ELSE <<".", source>>
    IN [res |-> IF fsContent = "missing" THEN Err("Other") ELSE Ok(fsContent),
        read |-> TRUE,
        path |-> Some(tileset_path)]

default_file_loader(map_path, source, fsContent) ==
    IF ~IsSome(map_path)
    THEN [res |-> Err("Other"), read |-> FALSE, path |-> None]
    ELSE LET tileset_path == with_file_name(map_path.val, source)
         IN [res |-> IF fsContent = "missing" THEN Err("Other")
                     ELSE Ok(fsContent),
             read |-> TRUE,
             path |-> Some(tileset_path)]

(***************************************************************************)
(* The entry points of lib.rs, as the loader each hands to parse_impl.     *)
(***************************************************************************)
MapPath == <<"maps", "level.tmx">>

LoaderOf(e) ==
    CASE e = "parse" -> [kind |-> "default", map_path |-> None]
      [] e = "parse_with_path" -> [kind |-> "default", map_path |-> Some(MapPath)]
      [] e = "parse_with_file_loader" -> [kind |-> "custom", map_path |-> None]

\* One call of the external file loader.  A caller's own loader answers as
\* it likes (content), and the library reads no file for it.
CallLoader(ld, source, content) ==
    IF ld.kind = "default"
    THEN default_file_loader(ld.map_path, source, content)
    ELSE [res |-> IF content = "missing" THEN Err("Other") ELSE Ok(content),
          read |-> FALSE,
          path |-> None]

(***************************************************************************)
(* The child builders Map::new calls (tileset.rs, layers.rs, objects.rs,   *)
(* properties.rs).  A child element is a record; `ok` tells whether its    *)
(* own attributes and content are well formed.                             *)
(***************************************************************************)
\* Tileset::new: firstgid is required; an element with a source is loaded
\* through the loader, once, and the bytes parsed as a tileset document; an
\* embedded one decodes its animation frames with Frame::new.
RECURSIVE FramesNew(_)
FramesNew(fs) ==
    IF fs = <<>> THEN Ok(<<>>)
    ELSE LET f == FrameNew(Head(fs))
             rest == FramesNew(Tail(fs))
         IN IF ~IsOk(f) THEN f
            ELSE IF ~IsOk(rest) THEN rest
            ELSE Ok(<<f.val>> \o rest.val)

TilesetNew(e, ld, content) ==
    LET first_gid == AttrU32(e.attrs, "firstgid")
        idle == [read |-> FALSE, called |-> FALSE]
    IN IF ~IsSome(first_gid)
       THEN [res |-> Err("MalformedAttributes")] @@ idle
       ELSE IF IsSome(e.attrs["source"])
       THEN LET l == CallLoader(ld, e.attrs["source"].val, content)
            IN [res |-> IF ~IsOk(l.res) THEN l.res
                        ELSE IF l.res.val # "tileset" THEN Err("XmlDecodingError")
                        ELSE Ok([first_gid |-> first_gid.val, frames |-> <<>>]),
                read |-> l.read,
                called |-> TRUE]
       ELSE LET fr == FramesNew(e.frames)
            IN [res |-> IF ~IsOk(fr) THEN fr
                        ELSE Ok([first_gid |-> first_gid.val, frames |-> fr.val])]
               @@ idle

LayerNew(e, w, index, infinite) ==
    IF e.ok THEN Ok([layer_index |-> index, width |-> w, infinite |-> infinite])
    ELSE Err("MalformedAttributes")

ImageLayerNew(e, index) ==
    IF e.ok THEN Ok([layer_index |-> index]) ELSE Err("MalformedAttributes")

ObjectGroupNew(e, index) ==
    IF e.ok THEN Ok([layer_index |-> index]) ELSE Err("MalformedAttributes")

\* parse_properties: the mapping the element declares, as a set of
\* <<name, value>> pairs.
parse_properties(e) ==
    IF e.ok THEN Ok(e.props) ELSE Err("MalformedAttributes")

(***************************************************************************)
(* Map::new (map.rs): the attributes of the root element.                  *)
(***************************************************************************)
\* The `optionals:` list of Map::new.
MapOptionals(attrs) ==
    << AttrColour(attrs, "backgroundcolor"),
       AttrFlag(attrs, "infinite") >>

\* A mutant of MapRequired: a missing or malformed width defaults to 0.
MapRequiredDefaulting(attrs) ==
    << AttrString(attrs, "version"),
       AttrOrientation(attrs, "orientation"),
       IF IsSome(AttrU32(attrs, "width"))
       THEN AttrU32(attrs, "width") ELSE Some(0),
       AttrU32(attrs, "height"),
       AttrU32(attrs, "tilewidth"),
       AttrU32(attrs, "tileheight") >>

\* The `required:` list of Map::new.
MapRequired(attrs) ==
    << AttrString(attrs, "version"),
       AttrOrientation(attrs, "orientation"),
       AttrU32(attrs, "width"),
       AttrU32(attrs, "height"),
       AttrU32(attrs, "tilewidth"),
       AttrU32(attrs, "tileheight") >>

\* get_attrs! in Map::new: ((c, infinite), (v, o, w, h, tw, th)), or the error.
MapAttrs(attrs) ==
    LET opt == MapOptionals(attrs)
        req == MapRequired(attrs)
    IN IF ~AllSome(req) THEN Err("MalformedAttributes")
       ELSE Ok([c |-> opt[1], infinite |-> opt[2],
                v |-> req[1].val, o |-> req[2].val, w |-> req[3].val,
                h |-> req[4].val, tw |-> req[5].val, th |-> req[6].val])

\* Option::unwrap_or
unwrap_or(x, d) == IF IsSome(x) THEN x.val ELSE d

(***************************************************************************)
(* Map::new: the handlers of parse_tag!(parser, "map", {...}).  Each takes *)
(* the locals it captures and gives their new values, or the error that    *)
(* `?` returns.                                                            *)
(***************************************************************************)
TilesetHandler(tilesets, e, ld, content) ==
    LET t == TilesetNew(e, ld, content)
    IN [res |-> IF IsOk(t.res) THEN Ok(Append(tilesets, t.res.val)) ELSE t.res,
        read |-> t.read,
        called |-> t.called]

LayerHandler(layers, layer_index, e, root) ==
    LET l == LayerNew(e, root.w, layer_index, unwrap_or(root.infinite, FALSE))
    IN IF IsOk(l)
       THEN Ok([layers |-> Append(layers, l.val), layer_index |-> layer_index + 1])
       ELSE l

\* A mutant of ImageLayerHandler: the index is not advanced.
ImageLayerHandlerNoIncrement(image_layers, layer_index, e) ==
    LET l == ImageLayerNew(e, layer_index)
    IN IF IsOk(l)
       THEN Ok([image_layers |-> Append(image_layers, l.val),
                layer_index |-> layer_index])
       ELSE l

ImageLayerHandler(image_layers, layer_index, e) ==
    LET l == ImageLayerNew(e, layer_index)
    IN IF IsOk(l)
       THEN Ok([image_layers |-> Append(image_layers, l.val),
                layer_index |-> layer_index + 1])
       ELSE l

ObjectGroupHandler(object_groups, layer_index, e) ==
    LET g == ObjectGroupNew(e, layer_index)
    IN IF IsOk(g)
       THEN Ok([object_groups |-> Append(object_groups, g.val),
                layer_index |-> layer_index + 1])
       ELSE g

\* A mutant of PropertiesHandler: the new entries are merged into the old.
PropertiesHandlerMerging(properties, e) ==
    LET p == parse_properties(e)
    IN IF IsOk(p)
       THEN Ok(p.val \cup {kv \in properties :
                              ~\E n \in p.val : n[1] = kv[1]})
       ELSE p

PropertiesHandler(properties, e) == parse_properties(e)

(***************************************************************************)
(* State.                                                                  *)
(***************************************************************************)
VARIABLES
    \* Map::new, called by parse_impl
    pc,             \* "AwaitingRootAttributes", "ParsingChildren", "Complete", "Failed"
    entry,          \* the entry point of lib.rs that was called
    attrs,          \* the attributes of the root element
    root,           \* ((c, infinite), (v, o, w, h, tw, th)) once extracted
    tilesets, layers, image_layers, object_groups, properties, layer_index,
    doc,            \* the child elements the parser has handed out so far
    result,         \* None while running, then Some(Ok(map)) or Some(Err(e))
    fsReads,        \* calls of std::fs::read
    loaderCalls,    \* calls of the external file loader
    \* the queries on a Map
    map,            \* the Map queried
    gid,            \* the argument of the last query
    call,           \* the last query
    ret,            \* what it returned: None, Some(x) or the record of a panic
    overflow_checks,\* whether the build checks integer overflow
    \* the Orientation conversions
    o_in, o_parsed, o_shown, o_back

bvars == <<pc, entry, attrs, root, tilesets, layers, image_layers,
           object_groups, properties, layer_index, doc, result, fsReads,
           loaderCalls>>
qvars == <<map, gid, call, ret, overflow_checks>>
ovars == <<o_in, o_parsed, o_shown, o_back>>
vars == <<bvars, qvars, ovars>>

Idle == [tag |-> "Idle"]
BuilderIdle ==
    /\ pc = "Idle" /\ entry = "none" /\ attrs = Idle /\ root = None
    /\ tilesets = <<>> /\ layers = <<>> /\ image_layers = <<>>
    /\ object_groups = <<>> /\ properties = {} /\ layer_index = 0
    /\ doc = <<>> /\ result = None /\ fsReads = 0 /\ loaderCalls = 0
QueryIdle ==
    /\ map = Idle /\ gid = 0 /\ call = "none" /\ ret = None
    /\ overflow_checks = FALSE
OrientationIdle ==
    /\ o_in = Idle /\ o_parsed = None /\ o_shown = None /\ o_back = None

(***************************************************************************)
(* The documents tried.                                                    *)
(***************************************************************************)
Entries == {"parse", "parse_with_path", "parse_with_file_loader"}

\* The optional attributes: absent, present and valid, present and not "1"
\* or not a colour.
OptionalAttrSets ==
    {[backgroundcolor |-> None, infinite |-> None],
     [backgroundcolor |-> Some(<<"#", "f", "F", "0", "0", "8", "0">>),
      infinite |-> Some("1")],
     [backgroundcolor |-> Some(<<"r", "e", "d">>), infinite |-> Some("0")]}
RequiredAttrSets ==
    [version : {None, Some("1.4")},
     orientation : {None, Some("hexagonal"), Some("Hexagonal")},
     width : {None, Some(<<"0">>), Some(<<"2">>), Some(<<"x">>)},
     height : {None, Some(<<"1">>), Some(<<"-", "1">>)},
     tilewidth : {None, Some(<<"1">>), Some(<<"0">>)},
     tileheight : {None, Some(<<"1">>), Some(<<"9", "9">>)}]
RootAttrSets == {r @@ o : r \in RequiredAttrSets, o \in OptionalAttrSets}

FrameAttrSets ==
    [tileid : {None, Some(<<"3">>), Some(<<"x">>)},
     duration : {None, Some(<<"5">>)}]

EmbeddedTilesets ==
    {[tag |-> "tileset", attrs |-> [firstgid |-> g, source |-> None], frames |-> f] :
        g \in {Some(<<"1">>)}, f \in {<<>>} \cup {<<a>> : a \in FrameAttrSets}}
    \cup {[tag |-> "tileset", attrs |-> [firstgid |-> None, source |-> None],
           frames |-> <<>>]}
ExternalTilesets ==
    {[tag |-> "tileset", attrs |-> [firstgid |-> Some(<<"2">>), source |-> Some("a.tsx")],
      frames |-> <<>>]}
TilesetElements == EmbeddedTilesets \cup ExternalTilesets
\* What a read of the external file finds.
Contents == {"missing", "tileset", "garbage"}

Elements(tag) == {[tag |-> tag, ok |-> b] : b \in BOOLEAN}
PropertySets == {{<<"a", "1">>}, {<<"b", "2">>}}
PropertiesElements ==
    {[tag |-> "properties", ok |-> b, props |-> p] :
        b \in BOOLEAN, p \in PropertySets}
UnknownElements == {[tag |-> "editorsettings"]}

IsExternal(e) == e.tag = "tileset" /\ IsSome(e.attrs["source"])
LayerTags == {"layer", "imagelayer", "objectgroup"}

(***************************************************************************)
(* Map::new as a state machine.                                            *)
(***************************************************************************)
InitBuilder ==
    /\ pc = "AwaitingRootAttributes"
    /\ entry \in Entries
    /\ attrs \in RootAttrSets
    /\ root = None
    /\ tilesets = <<>> /\ layers = <<>> /\ image_layers = <<>>
    /\ object_groups = <<>> /\ properties = {} /\ layer_index = 0
    /\ doc = <<>> /\ result = None /\ fsReads = 0 /\ loaderCalls = 0

\* get_attrs! and the initialisation of the locals.
RootAttributes ==
    /\ pc = "AwaitingRootAttributes"
    /\ LET r == MapAttrs(attrs)
       IN IF IsOk(r)
          THEN /\ root' = Some(r.val)
               /\ pc' = "ParsingChildren"
               /\ result' = result
          ELSE /\ root' = root
               /\ pc' = "Failed"
               /\ result' = Some(r)
    /\ UNCHANGED <<entry, attrs, tilesets, layers, image_layers, object_groups,
                   properties, layer_index, doc, fsReads, loaderCalls>>
    /\ UNCHANGED <<qvars, ovars>>

\* The parser hands out the start tag of one more child.
Child(e) ==
    /\ pc = "ParsingChildren"
    /\ Len(doc) < MaxChildren
    /\ doc' = Append(doc, e)

\* `?`: the handler's error is the result of Map::new.
Return(r) ==
    /\ pc' = "Failed"
    /\ result' = Some(r)

TilesetChild ==
    \E e \in TilesetElements, content \in Contents :
        /\ Child(e)
        /\ LET h == TilesetHandler(tilesets, e, LoaderOf(entry), content)
           IN /\ IF IsOk(h.res)
                 THEN tilesets' = h.res.val /\ UNCHANGED <<pc, result>>
                 ELSE Return(h.res) /\ UNCHANGED tilesets
              /\ fsReads' = fsReads + (IF h.read THEN 1 ELSE 0)
              /\ loaderCalls' = loaderCalls + (IF h.called THEN 1 ELSE 0)
        /\ UNCHANGED <<entry, attrs, root, layers, image_layers, object_groups,
                       properties, layer_index>>
        /\ UNCHANGED <<qvars, ovars>>

LayerChild ==
    \E e \in Elements("layer") :
        /\ Child(e)
        /\ LET h == LayerHandler(layers, layer_index, e, root.val)
           IN IF IsOk(h)
              THEN /\ layers' = h.val.layers
                   /\ layer_index' = h.val.layer_index
                   /\ UNCHANGED <<pc, result>>
              ELSE Return(h) /\ UNCHANGED <<layers, layer_index>>
        /\ UNCHANGED <<entry, attrs, root, tilesets, image_layers, object_groups,
                       properties, fsReads, loaderCalls>>
        /\ UNCHANGED <<qvars, ovars>>

ImageLayerChild ==
    \E e \in Elements("imagelayer") :
        /\ Child(e)
        /\ LET h == ImageLayerHandler(image_layers, layer_index, e)
           IN IF IsOk(h)
              THEN /\ image_layers' = h.val.image_layers
                   /\ layer_index' = h.val.layer_index
                   /\ UNCHANGED <<pc, result>>
              ELSE Return(h) /\ UNCHANGED <<image_layers, layer_index>>
        /\ UNCHANGED <<entry, attrs, root, tilesets, layers, object_groups,
                       properties, fsReads, loaderCalls>>
        /\ UNCHANGED <<qvars, ovars>>

PropertiesChild ==
    \E e \in PropertiesElements :
        /\ Child(e)
        /\ LET h == PropertiesHandler(properties, e)
           IN IF IsOk(h)
              THEN properties' = h.val /\ UNCHANGED <<pc, result>>
              ELSE Return(h) /\ UNCHANGED properties
        /\ UNCHANGED <<entry, attrs, root, tilesets, layers, image_layers,
                       object_groups, layer_index, fsReads, loaderCalls>>
        /\ UNCHANGED <<qvars, ovars>>

ObjectGroupChild ==
    \E e \in Elements("objectgroup") :
        /\ Child(e)
        /\ LET h == ObjectGroupHandler(object_groups, layer_index, e)
           IN IF IsOk(h)
              THEN /\ object_groups' = h.val.object_groups
                   /\ layer_index' = h.val.layer_index
                   /\ UNCHANGED <<pc, result>>
              ELSE Return(h) /\ UNCHANGED <<object_groups, layer_index>>
        /\ UNCHANGED <<entry, attrs, root, tilesets, layers, image_layers,
                       properties, fsReads, loaderCalls>>
        /\ UNCHANGED <<qvars, ovars>>

\* A start tag no handler is registered for.
UnknownChild ==
    \E e \in UnknownElements :
        /\ Child(e)
        /\ UNCHANGED <<pc, entry, attrs, root, tilesets, layers, image_layers,
                       object_groups, properties, layer_index, result, fsReads,
                       loaderCalls>>
        /\ UNCHANGED <<qvars, ovars>>

\* A mutant of MapOf: width and height change places.
MapOfSwapped(r) ==
    [version |-> r.v, orientation |-> r.o, width |-> r.h, height |-> r.w,
     tile_width |-> r.tw, tile_height |-> r.th,
     tilesets |-> tilesets, layers |-> layers, image_layers |-> image_layers,
     object_groups |-> object_groups, properties |-> properties,
     background_colour |-> r.c, infinite |-> unwrap_or(r.infinite, FALSE)]

\* Ok(Map {...})
MapOf(r) ==
    [version |-> r.v, orientation |-> r.o, width |-> r.w, height |-> r.h,
     tile_width |-> r.tw, tile_height |-> r.th,
     tilesets |-> tilesets, layers |-> layers, image_layers |-> image_layers,
     object_groups |-> object_groups, properties |-> properties,
     background_colour |-> r.c, infinite |-> unwrap_or(r.infinite, FALSE)]

\* The end tag of the root element: Ok(Map {...}).
EndMap ==
    /\ pc = "ParsingChildren"
    /\ pc' = "Complete"
    /\ result' = Some(Ok(MapOf(root.val)))
    /\ UNCHANGED <<entry, attrs, root, tilesets, layers, image_layers,
                   object_groups, properties, layer_index, doc, fsReads,
                   loaderCalls>>
    /\ UNCHANGED <<qvars, ovars>>

\* The document ends before the root element does.
EndDocument ==
    /\ pc = "ParsingChildren"
    /\ pc' = "Failed"
    /\ result' = Some(Err("PrematureEnd"))
    /\ UNCHANGED <<entry, attrs, root, tilesets, layers, image_layers,
                   object_groups, properties, layer_index, doc, fsReads,
                   loaderCalls>>
    /\ UNCHANGED <<qvars, ovars>>

Init == InitBuilder /\ QueryIdle /\ OrientationIdle

Next ==
    \/ RootAttributes
    \/ TilesetChild
    \/ LayerChild
    \/ ImageLayerChild
    \/ PropertiesChild
    \/ ObjectGroupChild
    \/ UnknownChild
    \/ EndMap
    \/ EndDocument

Spec == Init /\ [][Next]_vars

(***************************************************************************)
(* Properties of Map::new.                                                 *)
(***************************************************************************)
Last(q) == q[Len(q)]
Count(tag, p) == Cardinality({q \in 1..p : doc[q].tag = tag})
\* The place in the document of the j-th child with this tag.
PosOf(tag, j) == CHOOSE p \in 1..Len(doc) : doc[p].tag = tag /\ Count(tag, p) = j
\* How many layer, imagelayer and objectgroup children the first p hold.
Rank(p) == Cardinality({q \in 1..p : doc[q].tag \in LayerTags})
Built(tag) ==
    CASE tag = "layer" -> layers
      [] tag = "imagelayer" -> image_layers
      [] tag = "objectgroup" -> object_groups
\* The last child was refused by its builder.
ChildFailed == pc = "Failed" /\ doc # <<>> /\ result # Some(Err("PrematureEnd"))

\* C2: the k-th child among those tagged layer, imagelayer or objectgroup,
\* counted together in document order, is built with layer_index k-1;
\* tileset, properties and unrecognized children consume no index.
C2_LayerIndexInDocumentOrder ==
    /\ \A tag \in LayerTags :
          /\ Len(Built(tag)) =
                Count(tag, Len(doc))
                  - (IF ChildFailed /\ Last(doc).tag = tag THEN 1 ELSE 0)
          /\ \A j \in 1..Len(Built(tag)) :
                Built(tag)[j].layer_index = Rank(PosOf(tag, j)) - 1
    /\ pc = "Complete" =>
          /\ result.val.val.layers = layers
          /\ result.val.val.image_layers = image_layers
          /\ result.val.val.object_groups = object_groups

C2_Witness ==
    /\ pc = "Complete"
    /\ Len(doc) = 3
    /\ doc[1].tag = "imagelayer" /\ doc[2].tag = "tileset" /\ doc[3].tag = "layer"
    /\ result.val.val.image_layers[1].layer_index = 0
    /\ result.val.val.layers[1].layer_index = 1

\* C4: through parse (no path), an external tileset reference makes the
\* loader return Other without any file system read, and the parse returns
\* that error instead of a Map.
C4_NoPathExternalFails ==
    entry = "parse" =>
        /\ fsReads = 0
        /\ \A p \in 1..Len(doc) :
              IsExternal(doc[p]) =>
                  /\ p = Len(doc)
                  /\ pc = "Failed"
                  /\ result = Some(Err("Other"))
                  /\ loaderCalls = 1

C4_Witness ==
    /\ entry = "parse"
    /\ doc # <<>>
    /\ IsExternal(Last(doc))
    /\ Len(tilesets) = 1
    /\ result = Some(Err("Other"))

\* A required attribute of the root element is absent or fails its conversion.
RootUnusable ==
    \/ ~IsSome(attrs["version"])
    \/ ~IsSome(attrs["orientation"])
    \/ ~(attrs["orientation"].val \in
            {"orthogonal", "isometric", "staggered", "hexagonal"})
    \/ \E n \in {"width", "height", "tilewidth", "tileheight"} :
          ~IsSome(attrs[n]) \/ ~IsSome(parse_u32(attrs[n].val))
\* A required attribute of a frame is absent or fails its conversion.
FrameUnusable(f) ==
    \E n \in {"tileid", "duration"} :
        ~IsSome(f[n]) \/ ~IsSome(parse_u32(f[n].val))

\* C5: a required attribute of the root element or of a frame that is absent
\* or fails its conversion gives MalformedAttributes and no Map or Frame,
\* whatever the optional attributes; for the root element before any child
\* is consumed, so with no tileset, no layer and no loader call.
C5_RequiredAttributes ==
    /\ (pc # "AwaitingRootAttributes" /\ RootUnusable) =>
          /\ pc = "Failed"
          /\ result = Some(Err("MalformedAttributes"))
          /\ doc = <<>>
          /\ tilesets = <<>> /\ layers = <<>> /\ image_layers = <<>>
          /\ object_groups = <<>>
          /\ loaderCalls = 0 /\ fsReads = 0
    /\ \A p \in 1..Len(doc) :
          (doc[p].tag = "tileset" /\ IsSome(doc[p].attrs["firstgid"])
             /\ \E i \in 1..Len(doc[p].frames) : FrameUnusable(doc[p].frames[i])) =>
              /\ p = Len(doc)
              /\ pc = "Failed"
              /\ result = Some(Err("MalformedAttributes"))
    /\ \A i \in 1..Len(tilesets) :
          LET e == doc[PosOf("tileset", i)]
          IN /\ Len(tilesets[i].frames) = Len(e.frames)
             /\ \A k \in 1..Len(e.frames) :
                   /\ ~FrameUnusable(e.frames[k])
                   /\ tilesets[i].frames[k] =
                         [tile_id |-> parse_u32(e.frames[k]["tileid"].val).val,
                          duration |-> parse_u32(e.frames[k]["duration"].val).val]

C5_Witness ==
    /\ pc = "Failed"
    /\ ~IsSome(attrs["width"])
    /\ IsSome(attrs["backgroundcolor"])
    /\ IsSome(ColourFromStr(attrs["backgroundcolor"].val))
    /\ attrs["infinite"] = Some("1")
    /\ \A n \in {"version", "orientation", "height", "tilewidth", "tileheight"} :
          IsSome(attrs[n])
    /\ result = Some(Err("MalformedAttributes"))

\* C7: every Map returned has width, height, tile_width and tile_height
\* strictly positive.
C7_PositiveDimensions ==
    pc = "Complete" =>
        /\ result.val.val.width > 0
        /\ result.val.val.height > 0
        /\ result.val.val.tile_width > 0
        /\ result.val.val.tile_height > 0

\* C7 as amended: every Map returned has width, height, tile_width and
\* tile_height equal to the unsigned values of the width, height, tilewidth
\* and tileheight attributes of the root element, zero included.
C7_DimensionsAsWritten ==
    pc = "Complete" =>
        /\ result.val.val.width = parse_u32(attrs["width"].val).val
        /\ result.val.val.height = parse_u32(attrs["height"].val).val
        /\ result.val.val.tile_width = parse_u32(attrs["tilewidth"].val).val
        /\ result.val.val.tile_height = parse_u32(attrs["tileheight"].val).val
        /\ \A d \in {result.val.val.width, result.val.val.height,
                      result.val.val.tile_width, result.val.val.tile_height} :
              d \in UInt

C7_Witness ==
    /\ pc = "Complete"
    /\ attrs["width"] = Some(<<"0">>)
    /\ attrs["tilewidth"] = Some(<<"0">>)
    /\ IsOk(result.val)
    /\ result.val.val.width = 0
    /\ result.val.val.tile_width = 0

\* The properties of the last properties child that was built, or none.
LastProperties ==
    LET n == Len(doc) - (IF ChildFailed THEN 1 ELSE 0)
        ps == {p \in 1..n : doc[p].tag = "properties"}
    IN IF ps = {} THEN {}
       ELSE doc[CHOOSE p \in ps : \A q \in ps : q <= p].props

PropertiesAreLast ==
    /\ properties = LastProperties
    /\ pc = "Complete" => result.val.val.properties = LastProperties

\* C8: Map.properties is what the last properties child alone declares
\* (empty without one), and a properties child leaves tilesets, layers,
\* image_layers, object_groups and layer_index as they were.
C8_PropertiesReplaced ==
    [][/\ PropertiesAreLast'
       /\ (Len(doc') > Len(doc) /\ Last(doc').tag = "properties") =>
              UNCHANGED <<tilesets, layers, image_layers, object_groups,
                          layer_index>>]_vars

C8_Witness ==
    /\ pc = "Complete"
    /\ Len(doc) = 3
    /\ doc[1].tag = "properties" /\ doc[2].tag = "layer"
    /\ doc[3].tag = "properties"
    /\ doc[1].props # doc[3].props
    /\ result.val.val.properties = doc[3].props

(***************************************************************************)
(* Map::get_tileset_by_gid and Map::get_tile_rectangle_by_id (map.rs).     *)
(* A tileset is [first_gid, tile_width, tile_height, spacing, margin,      *)
(* images], an image [width]; a reference to a tileset is its place in     *)
(* Map.tilesets.                                                           *)
(***************************************************************************)
RECURSIVE ScanTilesets(_, _, _, _, _)
\* The loop over self.tilesets.iter(), from place i on.
ScanTilesets(ts, g, i, maximum_gid, maximum_ts) ==
    IF i > Len(ts) THEN maximum_ts
    ELSE IF AsSigned(ts[i].first_gid) > maximum_gid /\ ts[i].first_gid <= g
         THEN ScanTilesets(ts, g, i + 1, AsSigned(ts[i].first_gid), Some(i))
         ELSE ScanTilesets(ts, g, i + 1, maximum_gid, maximum_ts)

get_tileset_by_gid(m, g) == ScanTilesets(m.tilesets, g, 1, -1, None)

Panic(why) == [tag |-> "Panic", why |-> why]
IsPanic(x) == x.tag = "Panic"
Val(n) == [tag |-> "Val", n |-> n]

\* u32 arithmetic: an overflow panics in a build with overflow checks and
\* wraps in one without; a division by zero panics in both.
USub(a, b, checks) ==
    IF a - b >= 0 THEN Val(a - b)
    ELSE IF checks THEN Panic("attempt to subtract with overflow")
    ELSE Val(a - b + Pow2(Bits))
UAdd(a, b, checks) ==
    IF a + b <= UMax THEN Val(a + b)
    ELSE IF checks THEN Panic("attempt to add with overflow")
    ELSE Val((a + b) % Pow2(Bits))
UMul(a, b, checks) ==
    IF a * b <= UMax THEN Val(a * b)
    ELSE IF checks THEN Panic("attempt to multiply with overflow")
    ELSE Val((a * b) % Pow2(Bits))
UDiv(a, b) == IF b = 0 THEN Panic("attempt to divide by zero") ELSE Val(a \div b)
URem(a, b) ==
    IF b = 0
    THEN Panic("attempt to calculate the remainder with a divisor of zero")
    ELSE Val(a % b)

\* `margin + (size + spacing) * n`
Pixel(margin, size, spacing, n, checks) ==
    LET step == UAdd(size, spacing, checks)
    IN IF IsPanic(step) THEN step
       ELSE LET off == UMul(step.n, n, checks)
            IN IF IsPanic(off) THEN off ELSE UAdd(margin, off.n, checks)

get_tile_rectangle_by_id(m, id, checks) ==
    LET ts == get_tileset_by_gid(m, id)
    IN IF ~IsSome(ts) THEN None
       ELSE LET tileset == m.tilesets[ts.val]
            IN IF tileset.images = <<>> THEN None
               ELSE LET img == tileset.images[1]
                        local == USub(id, tileset.first_gid, checks)
                        cell == UAdd(tileset.spacing, tileset.tile_width, checks)
                    IN IF IsPanic(local) THEN local
                       ELSE IF IsPanic(cell) THEN cell
                       ELSE LET columns == UDiv(AsUnsigned(img.width), cell.n)
                            IN IF IsPanic(columns) THEN columns
                               ELSE LET tx == URem(local.n, columns.n)
                                        ty == UDiv(local.n, columns.n)
                                    IN IF IsPanic(tx) THEN tx
                                       ELSE IF IsPanic(ty) THEN ty
                                       ELSE LET x == Pixel(tileset.margin, tileset.tile_width,
                                                           tileset.spacing, tx.n, checks)
                                                y == Pixel(tileset.margin, tileset.tile_height,
                                                           tileset.spacing, ty.n, checks)
                                            IN IF IsPanic(x) THEN x
                                               ELSE IF IsPanic(y) THEN y
                                               ELSE Some(<<x.n, y.n, tileset.tile_width,
                                                           tileset.tile_height>>)

(***************************************************************************)
(* The Maps and gids the queries are tried on.                             *)
(***************************************************************************)
GidSamples == {0, 1, 2, IMax, IMax + 1, UMax}
Images == {[width |-> w] : w \in {-1, 1, 3}}
ImageLists == {<<>>} \cup {<<i>> : i \in Images}
                 \cup {<<[width |-> 3], [width |-> 1]>>}
TilesetValues ==
    [first_gid : GidSamples \ {IMax},
     tile_width : {0, 1, 2},
     tile_height : {2},
     spacing : {0, 1},
     margin : {0, 1},
     images : ImageLists]
TilesetLists == UNION {[1..n -> TilesetValues] : n \in 0..MaxTilesets}

InitQuery ==
    /\ map \in [tilesets : TilesetLists]
    /\ gid = 0 /\ call = "none" /\ ret = None
    /\ overflow_checks \in BOOLEAN

GetTilesetByGid ==
    \E g \in GidSamples :
        /\ call = "none"
        /\ gid' = g
        /\ call' = "get_tileset_by_gid"
        /\ ret' = get_tileset_by_gid(map, g)
        /\ UNCHANGED <<map, overflow_checks>>
        /\ UNCHANGED <<bvars, ovars>>

GetTileRectangleById ==
    \E g \in GidSamples :
        /\ call = "none"
        /\ gid' = g
        /\ call' = "get_tile_rectangle_by_id"
        /\ ret' = get_tile_rectangle_by_id(map, g, overflow_checks)
        /\ UNCHANGED <<map, overflow_checks>>
        /\ UNCHANGED <<bvars, ovars>>

NextQuery == GetTilesetByGid \/ GetTileRectangleById

InitQ == BuilderIdle /\ InitQuery /\ OrientationIdle

SpecQuery == InitQ /\ [][NextQuery]_vars

(***************************************************************************)
(* Properties of the queries.                                              *)
(***************************************************************************)
\* The places of the tilesets whose first_gid is at most g.
Qualifying(g) == {i \in 1..Len(map.tilesets) : map.tilesets[i].first_gid <= g}
LargestQualifying(g) ==
    CHOOSE f \in {map.tilesets[i].first_gid : i \in Qualifying(g)} :
        \A i \in Qualifying(g) : map.tilesets[i].first_gid <= f

\* C1: get_tileset_by_gid(gid) returns a tileset whose first_gid is the
\* largest first_gid among the tilesets with first_gid <= gid, whatever the
\* order of the tilesets, and none exactly when no tileset has
\* first_gid <= gid.
C1_LargestFirstGidAtMostGid ==
    call = "get_tileset_by_gid" =>
        IF Qualifying(gid) = {} THEN ret = None
        ELSE /\ IsSome(ret)
             /\ map.tilesets[ret.val].first_gid = LargestQualifying(gid)

\* C10: a tileset whose first_gid is at least 2^(Bits-1) and at most gid is
\* eligible, and is returned when its first_gid is the largest qualifying
\* one: the signed running maximum behaves as an unsigned one.
C10_FirstGidUnsigned ==
    (/\ call = "get_tileset_by_gid"
     /\ Qualifying(gid) # {}
     /\ LargestQualifying(gid) > IMax) =>
        /\ IsSome(ret)
        /\ map.tilesets[ret.val].first_gid = LargestQualifying(gid)

\* The tileset that owns the gid of the last query, if any.
Owner == get_tileset_by_gid(map, gid)

\* C3: when the first image of the owning tileset is at least
\* spacing + tile_width wide, get_tile_rectangle_by_id(gid) is none if no
\* tileset owns gid or the owner has no image, and otherwise
\* (margin + (tile_width + spacing) * (local % columns),
\*  margin + (tile_height + spacing) * (local / columns),
\*  tile_width, tile_height)
\* with local = gid - first_gid and
\* columns = image_width / (spacing + tile_width), of the first image.
C3_TileRectangle ==
    call = "get_tile_rectangle_by_id" =>
        IF ~IsSome(Owner) THEN ret = None
        ELSE LET t == map.tilesets[Owner.val]
             IN IF t.images = <<>> THEN ret = None
                ELSE t.images[1].width >= t.spacing + t.tile_width =>
                        /\ IsSome(ret)
                        /\ t.spacing + t.tile_width # 0
                        /\ LET local == gid - t.first_gid
                               columns == t.images[1].width
                                             \div (t.spacing + t.tile_width)
                           IN /\ columns # 0
                              /\ ret.val =
                                   << t.margin + (t.tile_width + t.spacing)
                                                    * (local % columns),
                                      t.margin + (t.tile_height + t.spacing)
                                                    * (local \div columns),
                                      t.tile_width, t.tile_height >>

\* C9: get_tile_rectangle_by_id(gid) completes and returns Some or None for
\* every Map and gid, without an arithmetic fault.
C9_NoArithmeticFault ==
    call = "get_tile_rectangle_by_id" => (ret = None \/ IsSome(ret))

(***************************************************************************)
(* The Orientation conversions, applied in turn to a string or a value.    *)
(***************************************************************************)
Tokens == {"orthogonal", "isometric", "staggered", "hexagonal"}
OrientationStrings ==
    Tokens
    \cup {t \o " " : t \in Tokens} \cup {" " \o t : t \in Tokens}
    \cup {t \o "s" : t \in Tokens} \cup {t \o t : t \in Tokens}
    \cup {"x" \o t : t \in Tokens} \cup {t \o "\n" : t \in Tokens}
    \cup {"Orthogonal", "Isometric", "Staggered", "Hexagonal",
          "ORTHOGONAL", "ISOMETRIC", "STAGGERED", "HEXAGONAL",
          "orthogona", "isometri", "staggere", "hexagona",
          "", "0", "map", "ortho", "hex", "iso"}

InitOrientation ==
    /\ o_in \in {[kind |-> "str", s |-> x] : x \in OrientationStrings}
                  \cup {[kind |-> "val", o |-> x] : x \in Orientation}
    /\ o_parsed = None /\ o_shown = None /\ o_back = None

\* s.parse::<Orientation>()
FromStr ==
    /\ o_in.kind = "str"
    /\ o_parsed = None
    /\ o_parsed' = Some(OrientationFromStr(o_in.s))
    /\ UNCHANGED <<o_in, o_shown, o_back>>
    /\ UNCHANGED <<bvars, qvars>>

\* to_string() of the value given, or of the value parsed
ToStr ==
    /\ o_shown = None
    /\ \/ /\ o_in.kind = "val"
          /\ o_shown' = Some(OrientationDisplay(o_in.o))
       \/ /\ o_in.kind = "str"
          /\ IsSome(o_parsed)
          /\ IsOk(o_parsed.val)
          /\ o_shown' = Some(OrientationDisplay(o_parsed.val.val))
    /\ UNCHANGED <<o_in, o_parsed, o_back>>
    /\ UNCHANGED <<bvars, qvars>>

\* the string shown, parsed again
Reparse ==
    /\ IsSome(o_shown)
    /\ o_back = None
    /\ o_back' = Some(OrientationFromStr(o_shown.val))
    /\ UNCHANGED <<o_in, o_parsed, o_shown>>
    /\ UNCHANGED <<bvars, qvars>>

InitO == BuilderIdle /\ QueryIdle /\ InitOrientation

NextOrientation == FromStr \/ ToStr \/ Reparse

SpecOrientation == InitO /\ [][NextOrientation]_vars

\* The four tokens and the value each stands for.
TokenTable ==
    {<<"orthogonal", "Orthogonal">>, <<"isometric", "Isometric">>,
     <<"staggered", "Staggered">>, <<"hexagonal", "Hexagonal">>}

\* C6: parsing maps exactly the four tokens, case-sensitively and one to
\* one, onto the four Orientation values and fails with OrientationError on
\* every other string; parsing the Display string of a value gives the value
\* back, and formatting the value parsed from a token gives the token back.
C6_OrientationBijection ==
    /\ (o_in.kind = "str" /\ IsSome(o_parsed)) =>
          /\ \A p \in TokenTable : o_in.s = p[1] => o_parsed.val = Ok(p[2])
          /\ (~\E p \in TokenTable : o_in.s = p[1]) =>
                o_parsed.val = Err("OrientationError")
    /\ (o_in.kind = "str" /\ IsSome(o_shown)) => o_shown.val = o_in.s
    /\ (o_in.kind = "val" /\ IsSome(o_shown)) =>
          \E p \in TokenTable : p[2] = o_in.o /\ p[1] = o_shown.val
    /\ (o_in.kind = "val" /\ IsSome(o_back)) => o_back.val = Ok(o_in.o)
    /\ (o_in.kind = "str" /\ IsSome(o_back)) => o_back.val = o_parsed.val

C6_Witness ==
    /\ o_in = [kind |-> "val", o |-> "Staggered"]
    /\ o_shown = Some("staggered")
    /\ o_back = Some(Ok("Staggered"))

====
